---- MODULE Spec2Model ----
(***************************************************************************)
(* Allocation / task lifecycle of the allocator portal                     *)
(* (allocator/views.py, allocator/models.py).  One allocator Job, its      *)
(* three TaskAllocations, the AllocationHistory table and the capacity     *)
(* counters of the writer / process profiles.  Every request handler is    *)
(* one atomic action (requests are taken one at a time); the store has no  *)
(* transactions, so a handler that raises keeps what it saved before.      *)
(***************************************************************************)
EXTENDS Integers, Sequences, FiniteSets, TLC

\* ---------------------------------------------------------------- bounds
\* number of state-changing requests explored from the initial state
MaxSteps == 3
\* WriterProfile.max_jobs configured for every writer of the model
MaxJobsCfg == 1
\* Job.word_count of the job of the model
JobWordCount == 2

\* word count of the job handed to a can_accept_job call
ProbeWords == 1000

\* default of WriterProfile.max_jobs
DefaultMaxJobs == 5

\* can_accept_job calls made in a row on one profile and job
MaxCalls == 2

\* JobQuery rows raised on the job
MaxQueries == 2

\* largest of Job.DEGREE_CHOICES
MaxDegree == 5

\* raise_query: least length of the stripped query text
MinQueryLen == 10

\* ---------------------------------------------------------------- users
Writers == {"w1", "w2"}
ProcessUsers == {"p1"}
OtherUsers == {"m1"}
Users == Writers \cup ProcessUsers \cup OtherUsers
\* empty form field / NULL foreign key
NoUser == "none"
\* an id no CustomUser row carries
BadId == "x9"
MemberIds == Users \cup {NoUser, BadId}

\* CustomUser.role
role(u) ==
  IF u \in Writers THEN "writer"
  ELSE IF u \in ProcessUsers THEN "process"
  ELSE "marketing"

\* WriterProfile.is_it_writer (default False; w1 is flagged as IT writer)
is_it_writer(u) == u = "w1"

\* WriterProfile.max_jobs
max_jobs(u) == MaxJobsCfg

\* WriterProfile.max_words (a writer has room for max_jobs jobs of this size)
max_words(u) == MaxJobsCfg * JobWordCount

\* can_accept_job with the word limit checked before the job limit
can_accept_job_words_first(p, j) ==
  IF ~p.is_available \/ p.is_sunday_off \/ p.is_on_holiday \/ p.is_overloaded
  THEN [ok |-> FALSE, reason |-> "Writer is not available", arg |-> 0]
  ELSE IF p.current_words + j.word_count > p.max_words
  THEN [ok |-> FALSE, reason |-> "Word limit would be exceeded", arg |-> 0]
  ELSE IF p.current_jobs >= p.max_jobs
  THEN [ok |-> FALSE, reason |-> "Maximum job limit reached", arg |-> p.max_jobs]
  ELSE IF j.job_category = "IT" /\ ~p.is_it_writer
  THEN [ok |-> FALSE, reason |-> "Not an IT writer", arg |-> 0]
  ELSE [ok |-> TRUE, reason |-> "Can accept job", arg |-> 0]

\* WriterProfile.can_accept_job(job) of profile p on job j: the pair it
\* returns, the number the reason names kept apart in arg
can_accept_job(p, j) ==
  IF ~p.is_available \/ p.is_sunday_off \/ p.is_on_holiday \/ p.is_overloaded
  THEN [ok |-> FALSE, reason |-> "Writer is not available", arg |-> 0]
  ELSE IF p.current_jobs >= p.max_jobs
  THEN [ok |-> FALSE, reason |-> "Maximum job limit reached", arg |-> p.max_jobs]
  ELSE IF p.current_words + j.word_count > p.max_words
  THEN [ok |-> FALSE, reason |-> "Word limit would be exceeded", arg |-> 0]
  ELSE IF j.job_category = "IT" /\ ~p.is_it_writer
  THEN [ok |-> FALSE, reason |-> "Not an IT writer", arg |-> 0]
  ELSE [ok |-> TRUE, reason |-> "Can accept job", arg |-> 0]

\* ---------------------------------------------------------------- task configuration
TaskTypes == {"content_creation", "ai_plag", "decoration"}

\* TASK_CONFIG[code]['dependent_on']
dependent_on(t) ==
  IF t = "ai_plag" THEN "content_creation"
  ELSE IF t = "decoration" THEN "ai_plag"
  ELSE "nil"

\* TASK_CONFIG[code]['allowed_roles']
allowed_roles(t) ==
  IF t = "content_creation" THEN {"writer"}
  ELSE IF t = "ai_plag" THEN {"process"}
  ELSE {"writer", "process"}

\* TASK_CONFIG[code]['status_choices']
status_choices == {"in_progress", "hold", "completed"}

\* TaskAllocation.can_allocate_to_user
can_allocate_to_user(t, u) ==
  IF t = "content_creation" THEN role(u) = "writer"
  ELSE IF t = "ai_plag" THEN role(u) = "process"
  ELSE IF t = "decoration" THEN role(u) \in {"writer", "process"}
  ELSE FALSE

\* Job.job_category of the job of the model: an IT job, the category that
\* restricts the writers of content_creation
job_category == "IT"

\* Job.STATUS_CHOICES
JOB_STATUS_CHOICES ==
  {"pending", "allocated", "in_progress", "hold", "query", "completed", "cancelled"}

\* TaskAllocation.TASK_STATUS_CHOICES
TASK_STATUS_CHOICES == {"pending", "in_progress", "completed", "hold", "query"}

\* the row of a (job, task_type) pair that has not been created yet
NoAlloc == [exists |-> FALSE, allocated_to |-> NoUser, status |-> "pending"]

\* TaskAllocation.temperature_score of a row never checked
NoScore == -1

VARIABLES
  job_status,      \* Job.status
  alloc,           \* TaskAllocation rows of the job, by task_type
  row_count,       \* number of task_allocations rows per (job, task_type)
  plag,            \* link / temperature fields of the ai_plag row
  history,         \* AllocationHistory rows in insertion order
  has_profile,     \* which writers own a WriterProfile row
  current_jobs,    \* WriterProfile / ProcessTeamProfile.current_jobs
  current_words,   \* WriterProfile.current_words
  steps,           \* requests that changed the state so far
  probe,           \* arguments and result of a can_accept_job call
  qjob,            \* Job.degree and Job.software_type
  queries,         \* JobQuery rows of the job in insertion order
  qview,           \* 'can_have_query' of the last rendered job page
  response,        \* how the last close_job / cancel_job / approval request ended
  account,         \* approval fields of one CustomUser
  pcr,             \* one ProfileChangeRequest of that user, from its creation
  req              \* two switch_writer requests in flight on one TaskAllocation

\* the state of the program
pvars == <<job_status, alloc, row_count, plag, history, has_profile,
           current_jobs, current_words>>

\* the query side of the job
qvars == <<qjob, queries, qview>>

\* the user side: an account, its change request, two requests in flight
uvars == <<account, pcr, req>>

vars == <<pvars, steps, probe, qvars, response, uvars>>

NoPlag == [writer_final_link |-> FALSE, process_final_link |-> FALSE,
           temperature_score |-> NoScore, temperature_matched |-> FALSE]

\* no can_accept_job call recorded
NoProbe == [called |-> FALSE]

\* a job as created, before any allocation
FreshJob ==
  /\ job_status = "pending"
  /\ alloc = [t \in TaskTypes |-> NoAlloc]
  /\ row_count = [t \in TaskTypes |-> 0]
  /\ plag = NoPlag
  /\ history = << >>
  /\ has_profile = [w \in Writers |-> w = "w1"]
  /\ current_jobs = [u \in Writers \cup ProcessUsers |-> 0]
  /\ current_words = [w \in Writers |-> 0]

\* Job.software_type values, as the characters 'in' searches
Chars(prefix) ==
  CASE prefix = "management" -> <<"m","a","n","a","g","e","m","e","n","t","_">>
    [] prefix = "IT" -> <<"I","T","_">>
    [] prefix = "finance" -> <<"f","i","n","a","n","c","e","_">>
    [] prefix = "withsoftware" -> <<"w","i","t","h","s","o","f","t","w","a","r","e">>
    [] prefix = "withoutsoftware" ->
         <<"w","i","t","h","o","u","t","s","o","f","t","w","a","r","e">>

\* Job.SOFTWARE_CHOICES
SOFTWARE_CHOICES ==
  {Chars(a) \o Chars(b) : a \in {"management", "IT", "finance"},
                          b \in {"withsoftware", "withoutsoftware"}}

\* software_type = None (null=True); blank=True allows the empty string
NoSoftware == <<"None">>

\* needle in hay, for Python strings
Contains(hay, needle) ==
  \E i \in 0..(Len(hay) - Len(needle)) :
    \A k \in 1..Len(needle) : hay[i + k] = needle[k]

\* can_have_query searching for 'software' alone
can_have_query_any_software(j) ==
  /\ j.degree >= 1
  /\ j.software_type # NoSoftware /\ j.software_type # << >>
  /\ Contains(j.software_type, <<"s","o","f","t","w","a","r","e">>)

\* Job.can_have_query
can_have_query(j) ==
  IF j.degree = 0 THEN FALSE
  ELSE IF /\ j.degree >= 1
          /\ j.software_type # NoSoftware /\ j.software_type # << >>
          /\ Contains(j.software_type, Chars("withsoftware"))
  THEN TRUE
  ELSE FALSE

\* a job created with the defaults of degree and software_type
DefaultQJob == [degree |-> 0, software_type |-> NoSoftware]

\* no job page rendered yet
NoView == [rendered |-> FALSE, can_have_query |-> FALSE]

\* the query side of a job nobody has looked at
QueryIdle ==
  /\ qjob = DefaultQJob
  /\ queries = << >>
  /\ qview = NoView

\* no close_job / cancel_job request made yet
NoResponse == [op |-> "none", outcome |-> "none", sink_failed |-> FALSE]

\* a visitor who has not registered
NoAccount ==
  [registered |-> FALSE, approval_status |-> "pending", is_approved |-> FALSE,
   role |-> "user", profile_edit_allowed |-> FALSE]

\* no ProfileChangeRequest row
NoRequest == [status |-> "none", call |-> "none", returned |-> "none"]

\* no switch_writer request in flight
NoRace == [racing |-> FALSE]

\* nobody registered, nothing in flight
UsersIdle ==
  /\ account = NoAccount
  /\ pcr = NoRequest
  /\ req = NoRace

Init ==
  /\ FreshJob
  /\ steps = 0
  /\ probe = NoProbe
  /\ QueryIdle
  /\ response = NoResponse
  /\ UsersIdle

\* ---------------------------------------------------------------- helpers
\* the job of the model as can_accept_job reads it
the_job == [word_count |-> JobWordCount, job_category |-> job_category]

\* the WriterProfile row of writer w (availability flags at their defaults)
writer_profile(w) ==
  [is_available |-> TRUE, is_sunday_off |-> FALSE, is_on_holiday |-> FALSE,
   is_overloaded |-> FALSE, is_it_writer |-> is_it_writer(w),
   current_jobs |-> current_jobs[w], max_jobs |-> max_jobs(w),
   current_words |-> current_words[w], max_words |-> max_words(w)]

\* max(0, n)
Max0(n) == IF n < 0 THEN 0 ELSE n

\* the status _sync_allocator_status derives from the rows a
sync_status(a, old) ==
  LET rows == {t \in TaskTypes : a[t].exists} IN
  IF rows = {} THEN old
  ELSE IF \A t \in rows : a[t].allocated_to # NoUser => a[t].status = "completed"
    THEN "completed"
  ELSE IF \E t \in rows : t = "content_creation" /\ a[t].status = "in_progress"
    THEN "in_progress"
  ELSE IF \E t \in rows : a[t].allocated_to # NoUser
    THEN "allocated"
  ELSE "pending"

\* TaskAllocation.objects.create in the place of get_or_create
create_row(n) == [created |-> TRUE, rows |-> n + 1]

\* TaskAllocation.objects.get_or_create on a (job, task_type) pair that has n
\* rows: whether a row was created, and the rows the pair has afterwards
get_or_create(n) == [created |-> n = 0, rows |-> IF n = 0 THEN 1 ELSE n]

\* _assign_allocation without its AllocationHistory.objects.create
assign_allocation_unlogged(s, t, member) ==
  [s EXCEPT !.alloc[t] = [exists |-> TRUE, allocated_to |-> member, status |-> "pending"],
            !.rows[t] = get_or_create(s.rows[t]).rows]

\* allocate_job._assign_allocation on the request state s
assign_allocation(s, t, member) ==
  LET got == get_or_create(s.rows[t])
      created == got.created
      row == IF created
               THEN [task |-> t, action |-> "allocated",
                     previous_user |-> NoUser, new_user |-> member]
               ELSE [task |-> t, action |-> "reallocated",
                     previous_user |-> s.alloc[t].allocated_to, new_user |-> member]
  IN [s EXCEPT !.alloc[t] = [exists |-> TRUE, allocated_to |-> member, status |-> "pending"],
               !.rows[t] = got.rows,
               !.hist = Append(s.hist, row)]

\* the working state of one request: rows, history and counters as saved so far
request_state ==
  [alloc |-> alloc, rows |-> row_count, hist |-> history, jobs |-> current_jobs,
   words |-> current_words, ok |-> TRUE]

\* allocate_job, "Allocate Content Creation" block
allocate_content(s, cw) ==
  IF cw = NoUser THEN s
  ELSE IF cw \notin Writers THEN [s EXCEPT !.ok = FALSE]
  ELSE LET s1 == assign_allocation(s, "content_creation", cw) IN
       IF ~has_profile[cw] THEN [s1 EXCEPT !.ok = FALSE]
       ELSE [s1 EXCEPT !.jobs[cw] = @ + 1, !.words[cw] = @ + JobWordCount]

\* allocate_job, "Allocate AI & Plag Check" block
allocate_ai_plag(s, ai) ==
  IF ~s.ok \/ ai = NoUser THEN s
  ELSE IF ai \notin ProcessUsers THEN [s EXCEPT !.ok = FALSE]
  ELSE assign_allocation(s, "ai_plag", ai)

\* allocate_job, "Allocate Decoration" block
allocate_decoration(s, deco) ==
  IF ~s.ok \/ deco = NoUser THEN s
  ELSE IF deco \notin Users THEN [s EXCEPT !.ok = FALSE]
  ELSE assign_allocation(s, "decoration", deco)

\* allocate_job, the three blocks in order: what the request has saved when
\* it ends, and whether it ended without an exception
allocate_request(cw, ai, deco) ==
  allocate_decoration(allocate_ai_plag(allocate_content(request_state, cw), ai), deco)

\* POST allocate_job with the three member fields of the form
allocate_job(cw, ai, deco) ==
  LET s3 == allocate_request(cw, ai, deco)
  IN /\ alloc' = s3.alloc
     /\ row_count' = s3.rows
     /\ history' = s3.hist
     /\ current_jobs' = s3.jobs
     /\ current_words' = s3.words
     /\ job_status' = IF s3.ok THEN "allocated" ELSE job_status
     /\ UNCHANGED <<plag, has_profile>>

\* a dependency check that waits for the prerequisite to be completed
dependency_completed(t) ==
  dependent_on(t) # "nil" =>
    /\ alloc[dependent_on(t)].exists
    /\ alloc[dependent_on(t)].status = "completed"

\* update_task's dependency check: task type t has no prerequisite, or the
\* prerequisite row exists and has an assignee
dependency_unlocked(t) ==
  dependent_on(t) # "nil" =>
    /\ alloc[dependent_on(t)].exists
    /\ alloc[dependent_on(t)].allocated_to # NoUser

\* view_job_details, action == 'update_task': TRUE when the request passes
\* every check before get_or_create
update_task_accepted(actor, t, status_value, member, dates_ok) ==
  /\ actor = "allocator"
  /\ t \in TaskTypes
  /\ dependency_unlocked(t)
  /\ status_value \in status_choices
  /\ member # NoUser =>
       /\ member \in Users
       /\ role(member) \in allowed_roles(t)
       /\ (t = "content_creation" /\ job_category = "IT") =>
            (has_profile[member] /\ is_it_writer(member))
  /\ dates_ok

\* POST view_job_details, action == 'update_task'
update_task(actor, t, status_value, member, dates_ok) ==
  IF update_task_accepted(actor, t, status_value, member, dates_ok)
  THEN LET a == [alloc EXCEPT ![t] = [exists |-> TRUE, allocated_to |-> member,
                                      status |-> status_value]]
       IN /\ alloc' = a
          /\ row_count' = [row_count EXCEPT ![t] = get_or_create(@).rows]
          /\ job_status' = sync_status(a, job_status)
          /\ UNCHANGED <<plag, history, has_profile,
                         current_jobs, current_words>>
  ELSE UNCHANGED pvars

\* POST view_job_details, action == 'close_job'
close_job ==
  IF \A t \in TaskTypes : alloc[t].exists /\ alloc[t].status = "completed"
  THEN /\ job_status' = "completed"
       /\ UNCHANGED <<alloc, row_count, plag, history, has_profile,
                      current_jobs, current_words>>
  ELSE UNCHANGED pvars

\* POST view_job_details, action == 'cancel_job'
cancel_job(reason_ok) ==
  IF reason_ok
  THEN /\ job_status' = "cancelled"
       /\ UNCHANGED <<alloc, row_count, plag, history, has_profile,
                      current_jobs, current_words>>
  ELSE UNCHANGED pvars

\* POST cancel_jobs
cancel_jobs ==
  LET cc == alloc["content_creation"]
      w == cc.allocated_to
  IN /\ job_status' = "cancelled"
     /\ IF cc.exists /\ w # NoUser /\ has_profile[w]
        THEN /\ current_jobs' = [current_jobs EXCEPT ![w] = Max0(@ - 1)]
             /\ current_words' = [current_words EXCEPT ![w] = Max0(@ - JobWordCount)]
        ELSE UNCHANGED <<current_jobs, current_words>>
     /\ UNCHANGED <<alloc, row_count, plag, history, has_profile>>

\* hold_jobs_allocator behind role_required(['allocator']): the Job.status a
\* request of the actor leaves, given the status js it finds
hold_status(actor, action, js) ==
  IF actor # "allocator" THEN js
  ELSE IF action = "hold" THEN "hold"
  ELSE IF action = "activate" /\ actor = "marketing" THEN "pending"
  ELSE js

\* POST hold_jobs_allocator
hold_jobs_allocator(actor, action) ==
  /\ job_status' = hold_status(actor, action, job_status)
  /\ UNCHANGED <<alloc, row_count, plag, history, has_profile,
                 current_jobs, current_words>>

\* inputs of the temperature_score field: empty, not a number, or a score
ScoreInputs == {"", "abc", "50", "80"}

\* float(temperature_score_raw) for the numeric inputs
score_of(raw) == IF raw = "50" THEN 50 ELSE 80

\* POST process_jobs for the ai_plag row of the job
process_jobs(writer_link, process_link, score_raw, mark_complete) ==
  LET task == alloc["ai_plag"]
      p1 == [plag EXCEPT
               !.writer_final_link = IF writer_link THEN TRUE ELSE @,
               !.process_final_link = IF process_link THEN TRUE ELSE @]
      p2 == IF score_raw \in {"", "abc"} THEN p1
            ELSE [p1 EXCEPT !.temperature_score = score_of(score_raw),
                            !.temperature_matched = score_of(score_raw) >= 70]
      rejected ==
        \/ ~task.exists
        \/ score_raw = "abc"
        \/ /\ mark_complete
           /\ \/ ~p2.writer_final_link \/ ~p2.process_final_link
              \/ p2.temperature_score = NoScore
              \/ ~p2.temperature_matched
  IN IF rejected THEN UNCHANGED pvars
     ELSE /\ plag' = p2
          /\ alloc' = IF mark_complete
                        THEN [alloc EXCEPT !["ai_plag"].status = "completed"]
                        ELSE alloc
          /\ job_status' = IF mark_complete THEN "decoration" ELSE job_status
          /\ UNCHANGED <<row_count, history, has_profile,
                         current_jobs, current_words>>

\* switch_writer, "Update old writer profile" block
switch_release_old(s, old_writer) ==
  IF old_writer # NoUser /\ role(old_writer) = "writer"
  THEN IF ~has_profile[old_writer] THEN [s EXCEPT !.ok = FALSE]
       ELSE [s EXCEPT !.jobs[old_writer] = Max0(@ - 1),
                      !.words[old_writer] = Max0(@ - JobWordCount)]
  ELSE s

\* switch_writer, "Update new writer profile" block
switch_charge_new(s, new_writer) ==
  IF ~s.ok THEN s
  ELSE IF ~has_profile[new_writer] THEN [s EXCEPT !.ok = FALSE]
  ELSE [s EXCEPT !.jobs[new_writer] = @ + 1,
                 !.words[new_writer] = @ + JobWordCount]

\* the blocks of switch_record, the history row written over the newest row
switch_record_overwriting(s, t, old_writer, new_writer) ==
  IF ~s.ok THEN s
  ELSE [s EXCEPT !.alloc[t].allocated_to = new_writer,
                 !.hist = IF s.hist = << >> THEN s.hist
                          ELSE [s.hist EXCEPT ![Len(s.hist)] =
                                  [task |-> t, action |-> "switched",
                                   previous_user |-> old_writer,
                                   new_user |-> new_writer]]]

\* switch_writer, "Update allocation" and "Log history" blocks
switch_record(s, t, old_writer, new_writer) ==
  IF ~s.ok THEN s
  ELSE [s EXCEPT !.alloc[t].allocated_to = new_writer,
                 !.hist = Append(s.hist, [task |-> t, action |-> "switched",
                                          previous_user |-> old_writer,
                                          new_user |-> new_writer])]

\* switch_writer, the blocks in order: what the request has saved when it
\* ends, and whether it ended without an exception
switch_request(t, new_writer_id) ==
  IF ~alloc[t].exists \/ new_writer_id \notin Writers
  THEN [request_state EXCEPT !.ok = FALSE]
  ELSE LET old_writer == alloc[t].allocated_to
       IN switch_record(
            switch_charge_new(
              switch_release_old(request_state, old_writer), new_writer_id),
            t, old_writer, new_writer_id)

\* POST switch_writer for the row of task type t
switch_writer(t, new_writer_id) ==
  LET s3 == switch_request(t, new_writer_id)
       IN /\ alloc' = s3.alloc
          /\ history' = s3.hist
          /\ current_jobs' = s3.jobs
          /\ current_words' = s3.words
          /\ UNCHANGED <<job_status, row_count, plag, has_profile>>

\* GET all_writers: a writer without a WriterProfile gets one
all_writers ==
  /\ has_profile' = [w \in Writers |-> TRUE]
  /\ UNCHANGED <<job_status, alloc, row_count, plag, history,
                 current_jobs, current_words>>

\* allocate_job form fields: a writer, a process member, another role, a missing id
ContentInputs == {NoUser, "w1", "w2", "p1"}
AiPlagInputs == {NoUser, "p1", "w1"}
DecorationInputs == {NoUser, "w1", "p1", "m1", BadId}

\* update_task forms: the well-formed ones and one of each malformed kind
UpdateTaskInputs ==
  {<<"allocator", t, st, m, TRUE>> : t \in TaskTypes, st \in status_choices,
                                     m \in MemberIds}
  \cup {<<"writer", "content_creation", "in_progress", "w1", TRUE>>,
        <<"allocator", "bogus", "in_progress", "w1", TRUE>>,
        <<"allocator", "content_creation", "pending", "w1", TRUE>>,
        <<"allocator", "content_creation", "in_progress", "w1", FALSE>>}

\* a request A taken within the step bound
Counted(A) ==
  /\ steps < MaxSteps
  /\ A
  /\ steps' = IF pvars' = pvars THEN steps ELSE steps + 1
  /\ UNCHANGED <<probe, qvars, response, uvars>>

Next ==
  \/ \E cw \in ContentInputs, ai \in AiPlagInputs, deco \in DecorationInputs :
       Counted(allocate_job(cw, ai, deco))
  \/ \E f \in UpdateTaskInputs : Counted(update_task(f[1], f[2], f[3], f[4], f[5]))
  \/ Counted(close_job)
  \/ \E r \in BOOLEAN : Counted(cancel_job(r))
  \/ Counted(cancel_jobs)
  \/ \E actor \in {"allocator", "marketing"}, action \in {"hold", "activate"} :
       Counted(hold_jobs_allocator(actor, action))
  \/ \E wl \in BOOLEAN, pl \in BOOLEAN, sc \in ScoreInputs, mc \in BOOLEAN :
       Counted(process_jobs(wl, pl, sc, mc))
  \/ \E t \in TaskTypes, nw \in {"w1", "w2", "p1"} : Counted(switch_writer(t, nw))
  \/ Counted(all_writers)

Spec == Init /\ [][Next]_vars

\* ---------------------------------------------------------------- can_accept_job alone
\* WriterProfile rows a call may meet
ProbeProfiles ==
  [is_available : BOOLEAN, is_sunday_off : BOOLEAN, is_on_holiday : BOOLEAN,
   is_overloaded : BOOLEAN, is_it_writer : BOOLEAN,
   current_jobs : {0, DefaultMaxJobs - 1, DefaultMaxJobs, DefaultMaxJobs + 1},
   max_jobs : {MaxJobsCfg, DefaultMaxJobs},
   current_words : {0, ProbeWords},
   max_words : {0, ProbeWords, 2 * ProbeWords}]

\* jobs a call may be about
ProbeJobs == [word_count : {ProbeWords}, job_category : {"IT", "NON-IT"}]

\* no result yet
NoResult == [ok |-> FALSE, reason |-> "", arg |-> 0]

\* a profile and a job, before can_accept_job is called on them; profile0 and
\* job0 keep the rows as they were loaded
InitAccept ==
  /\ FreshJob
  /\ steps = 0
  /\ \E p \in ProbeProfiles, j \in ProbeJobs :
       probe = [called |-> FALSE, calls |-> 0, profile |-> p, job |-> j,
                profile0 |-> p, job0 |-> j,
                result |-> NoResult, previous |-> NoResult]
  /\ QueryIdle
  /\ response = NoResponse
  /\ UsersIdle

\* a can_accept_job that books the job on the profile when it accepts
can_accept_job_reserving(p, j) ==
  LET r == can_accept_job(p, j)
  IN [profile |-> IF r.ok THEN [p EXCEPT !.current_jobs = @ + 1] ELSE p,
      job |-> j, result |-> r]

\* one execution of the body of can_accept_job on self = p and job = j: the
\* fields of self and of job when it returns, and the pair it returns
can_accept_job_call(p, j) ==
  [profile |-> p, job |-> j, result |-> can_accept_job(p, j)]

\* writer_profile.can_accept_job(job)
call_can_accept_job ==
  /\ probe.calls < MaxCalls
  /\ LET c == can_accept_job_call(probe.profile, probe.job)
     IN probe' = [probe EXCEPT !.called = TRUE,
                               !.calls = @ + 1,
                               !.profile = c.profile,
                               !.job = c.job,
                               !.previous = probe.result,
                               !.result = c.result]
  /\ UNCHANGED <<pvars, steps, qvars, response, uvars>>

NextAccept == call_can_accept_job

SpecAccept == InitAccept /\ [][NextAccept]_vars

\* ---------------------------------------------------------------- job queries
\* jobs by degree and software_type
QueryJobs ==
  [degree : 0..MaxDegree, software_type : SOFTWARE_CHOICES \cup {NoSoftware, << >>}]

\* a query text: its leading blanks, its body and its trailing blanks
QueryTexts ==
  {[lead |-> 0, body |-> 0, trail |-> 0],
   [lead |-> MinQueryLen, body |-> 0, trail |-> 0],
   [lead |-> 2, body |-> MinQueryLen - 1, trail |-> 1],
   [lead |-> 0, body |-> MinQueryLen, trail |-> 0],
   [lead |-> 1, body |-> MinQueryLen + 1, trail |-> 2]}

\* the text taken as typed
strip_nothing(text) == text

\* str.strip()
strip(text) == [lead |-> 0, body |-> text.body, trail |-> 0]

\* len()
len(text) == text.lead + text.body + text.trail

InitQuery ==
  /\ FreshJob
  /\ steps = 0
  /\ probe = NoProbe
  /\ qjob \in QueryJobs
  /\ queries = << >>
  /\ qview = NoView
  /\ response = NoResponse
  /\ UsersIdle

\* POST view_job_details, action == 'raise_query', behind
\* role_required(['allocator', 'writer', 'process'])
raise_query(actor, text) ==
  /\ Len(queries) < MaxQueries
  /\ LET query_text == strip(text) IN
     IF /\ actor \in {"allocator", "writer", "process"}
        /\ can_have_query(qjob)
        /\ len(query_text) >= MinQueryLen
     THEN queries' = Append(queries, [raised_by |-> actor, query_text |-> query_text,
                                      task_allocation |-> "None", status |-> "open"])
     ELSE queries' = queries
  /\ UNCHANGED <<pvars, steps, probe, qjob, qview, response, uvars>>

\* GET view_job_details: the context entry 'can_have_query'
view_job_details ==
  /\ qview' = [rendered |-> TRUE, can_have_query |-> can_have_query(qjob)]
  /\ UNCHANGED <<pvars, steps, probe, qjob, queries, response, uvars>>

NextQuery ==
  \/ \E actor \in {"allocator", "writer", "marketing"}, text \in QueryTexts :
       raise_query(actor, text)
  \/ view_job_details
  \/ Counted(allocate_job("w1", "p1", NoUser))
  \/ \E st \in {"in_progress", "completed"} :
       Counted(update_task("allocator", "content_creation", st, "w1", TRUE))

SpecQuery == InitQuery /\ [][NextQuery]_vars

\* ---------------------------------------------------------------- closing and cancelling
\* a job late in its life: allocated to w1, p1, p1, content reallocated to w1
\* once more, then every task completed through update_task
InitLate ==
  /\ job_status = "completed"
  /\ alloc = [t \in TaskTypes |->
               [exists |-> TRUE,
                allocated_to |-> IF t = "content_creation" THEN "w1" ELSE "p1",
                status |-> "completed"]]
  /\ row_count = [t \in TaskTypes |-> 1]
  /\ plag = NoPlag
  /\ history =
       << [task |-> "content_creation", action |-> "allocated",
           previous_user |-> NoUser, new_user |-> "w1"],
          [task |-> "ai_plag", action |-> "allocated",
           previous_user |-> NoUser, new_user |-> "p1"],
          [task |-> "decoration", action |-> "allocated",
           previous_user |-> NoUser, new_user |-> "p1"],
          [task |-> "content_creation", action |-> "reallocated",
           previous_user |-> "w1", new_user |-> "w1"] >>
  /\ has_profile = [w \in Writers |-> w = "w1"]
  /\ current_jobs = [u \in Writers \cup ProcessUsers |-> IF u = "w1" THEN 2 ELSE 0]
  /\ current_words = [w \in Writers |-> IF w = "w1" THEN 2 * JobWordCount ELSE 0]
  /\ steps = 0
  /\ probe = NoProbe
  /\ QueryIdle
  /\ response = NoResponse
  /\ UsersIdle

\* log_job_activity: ActivityLog.objects.create raises when the sink is down,
\* and nothing catches it
log_job_activity(sink_ok) == IF sink_ok THEN "success" ELSE "exception"

\* POST view_job_details, action == 'close_job', with the response; the job
\* has a MarketingJob twin or not
close_job_request(marketing_job, sink_ok) ==
  /\ steps < MaxSteps
  /\ close_job
  /\ steps' = steps + 1
  /\ response' =
       IF ~(\A t \in TaskTypes : alloc[t].exists /\ alloc[t].status = "completed")
       THEN [op |-> "close_job", outcome |-> "error", sink_failed |-> FALSE]
       ELSE IF marketing_job
       THEN [op |-> "close_job", outcome |-> log_job_activity(sink_ok),
             sink_failed |-> ~sink_ok]
       ELSE [op |-> "close_job", outcome |-> "success", sink_failed |-> FALSE]
  /\ UNCHANGED <<probe, qvars, uvars>>

\* POST view_job_details, action == 'cancel_job', with the response
cancel_job_request(reason_ok, marketing_job, sink_ok) ==
  /\ steps < MaxSteps
  /\ cancel_job(reason_ok)
  /\ steps' = steps + 1
  /\ response' =
       IF ~reason_ok
       THEN [op |-> "cancel_job", outcome |-> "error", sink_failed |-> FALSE]
       ELSE IF marketing_job
       THEN [op |-> "cancel_job", outcome |-> log_job_activity(sink_ok),
             sink_failed |-> ~sink_ok]
       ELSE [op |-> "cancel_job", outcome |-> "success", sink_failed |-> FALSE]
  /\ UNCHANGED <<probe, qvars, uvars>>

NextLate ==
  \/ \E mj \in BOOLEAN, ok \in BOOLEAN : close_job_request(mj, ok)
  \/ \E r \in BOOLEAN, mj \in BOOLEAN, ok \in BOOLEAN : cancel_job_request(r, mj, ok)
  \/ Counted(cancel_jobs)
  \/ Counted(hold_jobs_allocator("allocator", "hold"))
  \/ \E f \in UpdateTaskInputs : Counted(update_task(f[1], f[2], f[3], f[4], f[5]))

SpecLate == InitLate /\ [][NextLate]_vars

\* ---------------------------------------------------------------- accounts
InitUser ==
  /\ FreshJob
  /\ steps = 0
  /\ probe = NoProbe
  /\ QueryIdle
  /\ response = NoResponse
  /\ UsersIdle

\* what a user action leaves alone
job_side == <<pvars, steps, probe, qvars, req>>

\* register_view: the CustomUser row it creates
register ==
  /\ ~account.registered
  /\ account' = [registered |-> TRUE, approval_status |-> "pending",
                  is_approved |-> FALSE, role |-> "user",
                  profile_edit_allowed |-> FALSE]
  /\ UNCHANGED <<job_side, response, pcr>>

\* log_activity_event: ActivityLog.objects.create raises when the sink is
\* down, and nothing catches it
log_activity_event(sink_ok) == IF sink_ok THEN "success" ELSE "exception"

\* user_services.approve_user, called by the superadmin and the admin view
approve_user(role_in, sink_ok) ==
  /\ account.registered
  /\ IF role_in \notin {"writer", "process", "marketing", "allocator", "admin", "superadmin"}
     THEN /\ response' = [op |-> "approve_user", outcome |-> "error", sink_failed |-> FALSE]
          /\ UNCHANGED account
     ELSE /\ account' = [account EXCEPT !.role = role_in,
                                        !.approval_status = "approved",
                                        !.is_approved = TRUE]
          /\ response' = [op |-> "approve_user", outcome |-> log_activity_event(sink_ok),
                          sink_failed |-> ~sink_ok]
  /\ UNCHANGED <<job_side, pcr>>

\* user_services.reject_user, called by the superadmin and the admin view
reject_user(sink_ok) ==
  /\ account.registered
  /\ account' = [account EXCEPT !.approval_status = "rejected", !.is_approved = FALSE]
  /\ response' = [op |-> "reject_user", outcome |-> log_activity_event(sink_ok),
                  sink_failed |-> ~sink_ok]
  /\ UNCHANGED <<job_side, pcr>>

\* CustomUser.approve_user
CustomUser_approve_user ==
  /\ account.registered
  /\ account' = [account EXCEPT !.is_approved = TRUE, !.approval_status = "approved"]
  /\ UNCHANGED <<job_side, response, pcr>>

\* CustomUser.reject_user
CustomUser_reject_user ==
  /\ account.registered
  /\ account' = [account EXCEPT !.approval_status = "rejected"]
  /\ UNCHANGED <<job_side, response, pcr>>

\* login_view: the approval check refuses the login
login_refused(a) == ~a.is_approved

\* LoginRequiredMiddleware: an authenticated user is logged out on a
\* protected page
middleware_refused(a) == ~a.is_approved

\* _handle_identity_request: creates the request, or refreshes it while it is
\* pending; a request made after this one ended is another row
handle_identity_request ==
  /\ account.registered /\ ~login_refused(account)
  /\ account.role # "superadmin"
  /\ IF pcr.status = "approved" \/ account.profile_edit_allowed THEN UNCHANGED pcr
     ELSE IF pcr.status = "none" THEN pcr' = [pcr EXCEPT !.status = "pending"]
     ELSE UNCHANGED pcr
  /\ UNCHANGED <<job_side, response, account>>

\* ProfileChangeRequest.approve on request p of account a
approve(p, a) ==
  IF p.status # "pending"
  THEN [pcr |-> [p EXCEPT !.call = "approve", !.returned = "False"], account |-> a]
  ELSE [pcr |-> [status |-> "approved", call |-> "approve", returned |-> "True"],
        account |-> [a EXCEPT !.profile_edit_allowed = TRUE]]

\* ProfileChangeRequest.mark_completed
mark_completed(p, a) ==
  IF p.status # "approved"
  THEN [pcr |-> [p EXCEPT !.call = "mark_completed", !.returned = "False"], account |-> a]
  ELSE [pcr |-> [status |-> "completed", call |-> "mark_completed", returned |-> "True"],
        account |-> a]

\* a reject that does not look at the status
reject_any_status(p, a) ==
  [pcr |-> [status |-> "rejected", call |-> "reject", returned |-> "True"],
   account |-> [a EXCEPT !.profile_edit_allowed = FALSE]]

\* ProfileChangeRequest.reject
reject(p, a) ==
  IF p.status \notin {"pending", "approved"}
  THEN [pcr |-> [p EXCEPT !.call = "reject", !.returned = "False"], account |-> a]
  ELSE [pcr |-> [status |-> "rejected", call |-> "reject", returned |-> "True"],
        account |-> [a EXCEPT !.profile_edit_allowed = FALSE]]

\* a call of one of the three methods on the request
request_method(m) ==
  /\ pcr.status # "none"
  /\ LET out == CASE m = "approve" -> approve(pcr, account)
                   [] m = "mark_completed" -> mark_completed(pcr, account)
                   [] m = "reject" -> reject(pcr, account)
     IN /\ pcr' = out.pcr
        /\ account' = out.account
  /\ UNCHANGED <<job_side, response>>

\* user_services.approve_profile_request
approve_profile_request ==
  /\ pcr.status # "none"
  /\ IF pcr.status # "pending" THEN UNCHANGED <<pcr, account>>
     ELSE /\ pcr' = approve(pcr, account).pcr
          /\ account' = approve(pcr, account).account
  /\ UNCHANGED <<job_side, response>>

\* _consume_profile_edit_window after a profile POST
consume_profile_edit_window ==
  /\ account.registered /\ ~login_refused(account)
  /\ IF account.role = "superadmin" \/ ~account.profile_edit_allowed
     THEN UNCHANGED <<pcr, account>>
     ELSE /\ account' = [account EXCEPT !.profile_edit_allowed = FALSE]
          /\ pcr' = IF pcr.status = "approved"
                     THEN [pcr EXCEPT !.status = "completed"]
                     ELSE pcr
  /\ UNCHANGED <<job_side, response>>

NextUser ==
  \/ register
  \/ \E role_in \in {"", "user", "writer"}, ok \in BOOLEAN : approve_user(role_in, ok)
  \/ \E ok \in BOOLEAN : reject_user(ok)
  \/ CustomUser_approve_user
  \/ CustomUser_reject_user
  \/ handle_identity_request
  \/ \E m \in {"approve", "mark_completed", "reject"} : request_method(m)
  \/ approve_profile_request
  \/ consume_profile_edit_window

SpecUser == InitUser /\ [][NextUser]_vars

\* ---------------------------------------------------------------- two switch_writer requests at once
Requests == {"A", "B"}

\* the row both requests switch
RaceTask == "content_creation"

\* the job after allocate_job(content_writer = w1) and a visit of all_writers
RaceStart ==
  [alloc |-> [t \in TaskTypes |->
                IF t = RaceTask
                THEN [exists |-> TRUE, allocated_to |-> "w1", status |-> "pending"]
                ELSE NoAlloc],
   rows |-> [t \in TaskTypes |-> IF t = RaceTask THEN 1 ELSE 0],
   hist |-> << [task |-> RaceTask, action |-> "allocated",
                previous_user |-> NoUser, new_user |-> "w1"] >>,
   jobs |-> [u \in Writers \cup ProcessUsers |-> IF u = "w1" THEN 1 ELSE 0],
   words |-> [w \in Writers |-> IF w = "w1" THEN JobWordCount ELSE 0],
   ok |-> TRUE]

\* request A switches the row to w2, request B to w1 or to w2
InitRace ==
  /\ job_status = "allocated"
  /\ alloc = RaceStart.alloc
  /\ row_count = RaceStart.rows
  /\ plag = NoPlag
  /\ history = RaceStart.hist
  /\ has_profile = [w \in Writers |-> TRUE]
  /\ current_jobs = RaceStart.jobs
  /\ current_words = RaceStart.words
  /\ steps = 0
  /\ probe = NoProbe
  /\ QueryIdle
  /\ response = NoResponse
  /\ account = NoAccount
  /\ pcr = NoRequest
  /\ \E nb \in Writers :
       req = [racing |-> TRUE,
              pc |-> [r \in Requests |-> "start"],
              new_writer |-> [r \in Requests |-> IF r = "A" THEN "w2" ELSE nb],
              old_writer |-> [r \in Requests |-> NoUser],
              profile |-> [r \in Requests |-> [current_jobs |-> 0, current_words |-> 0]]]

\* what a step of a request leaves alone
race_rest == <<job_status, row_count, plag, has_profile, steps, probe, qvars,
               response, account, pcr>>

\* get_allocation under select_for_update: waits while the other request
\* holds the row
get_allocation_locked(r) ==
  /\ req.racing /\ req.pc[r] = "start"
  /\ \A o \in Requests \ {r} : req.pc[o] \in {"start", "done"}
  /\ req' = [req EXCEPT !.pc[r] = "got_allocation",
                         !.old_writer[r] = alloc[RaceTask].allocated_to]
  /\ UNCHANGED <<race_rest, alloc, history, current_jobs, current_words>>

\* allocation = TaskAllocation.objects.get(id); old_writer = allocation.allocated_to
get_allocation(r) ==
  /\ req.racing /\ req.pc[r] = "start"
  /\ req' = [req EXCEPT !.pc[r] = "got_allocation",
                         !.old_writer[r] = alloc[RaceTask].allocated_to]
  /\ UNCHANGED <<race_rest, alloc, history, current_jobs, current_words>>

\* old_profile = old_writer.writer_profile
read_old_profile(r) ==
  /\ req.racing /\ req.pc[r] = "got_allocation"
  /\ req' = [req EXCEPT !.pc[r] = "old_read",
                         !.profile[r] =
                            [current_jobs |-> current_jobs[req.old_writer[r]],
                             current_words |-> current_words[req.old_writer[r]]]]
  /\ UNCHANGED <<race_rest, alloc, history, current_jobs, current_words>>

\* old_profile.current_jobs = max(0, ...); old_profile.save()
save_old_profile(r) ==
  /\ req.racing /\ req.pc[r] = "old_read"
  /\ current_jobs' = [current_jobs EXCEPT ![req.old_writer[r]] =
                        Max0(req.profile[r].current_jobs - 1)]
  /\ current_words' = [current_words EXCEPT ![req.old_writer[r]] =
                         Max0(req.profile[r].current_words - JobWordCount)]
  /\ req' = [req EXCEPT !.pc[r] = "old_saved"]
  /\ UNCHANGED <<race_rest, alloc, history>>

\* new_profile = new_writer.writer_profile
read_new_profile(r) ==
  /\ req.racing /\ req.pc[r] = "old_saved"
  /\ req' = [req EXCEPT !.pc[r] = "new_read",
                         !.profile[r] =
                            [current_jobs |-> current_jobs[req.new_writer[r]],
                             current_words |-> current_words[req.new_writer[r]]]]
  /\ UNCHANGED <<race_rest, alloc, history, current_jobs, current_words>>

\* new_profile.current_jobs += 1; new_profile.save()
save_new_profile(r) ==
  /\ req.racing /\ req.pc[r] = "new_read"
  /\ current_jobs' = [current_jobs EXCEPT ![req.new_writer[r]] =
                        req.profile[r].current_jobs + 1]
  /\ current_words' = [current_words EXCEPT ![req.new_writer[r]] =
                         req.profile[r].current_words + JobWordCount]
  /\ req' = [req EXCEPT !.pc[r] = "new_saved"]
  /\ UNCHANGED <<race_rest, alloc, history>>

\* allocation.allocated_to = new_writer; allocation.save()
save_allocation(r) ==
  /\ req.racing /\ req.pc[r] = "new_saved"
  /\ alloc' = [alloc EXCEPT ![RaceTask].allocated_to = req.new_writer[r]]
  /\ req' = [req EXCEPT !.pc[r] = "allocation_saved"]
  /\ UNCHANGED <<race_rest, history, current_jobs, current_words>>

\* AllocationHistory.objects.create(action='switched', ...)
log_switch(r) ==
  /\ req.racing /\ req.pc[r] = "allocation_saved"
  /\ history' = Append(history, [task |-> RaceTask, action |-> "switched",
                                 previous_user |-> req.old_writer[r],
                                 new_user |-> req.new_writer[r]])
  /\ req' = [req EXCEPT !.pc[r] = "done"]
  /\ UNCHANGED <<race_rest, alloc, current_jobs, current_words>>

\* the next statement of request r
request_step(r) ==
  \/ get_allocation(r)
  \/ read_old_profile(r)
  \/ save_old_profile(r)
  \/ read_new_profile(r)
  \/ save_new_profile(r)
  \/ save_allocation(r)
  \/ log_switch(r)

NextRace ==
  \/ \E r \in Requests : get_allocation(r)
  \/ \E r \in Requests : read_old_profile(r)
  \/ \E r \in Requests : save_old_profile(r)
  \/ \E r \in Requests : read_new_profile(r)
  \/ \E r \in Requests : save_new_profile(r)
  \/ \E r \in Requests : save_allocation(r)
  \/ \E r \in Requests : log_switch(r)

SpecRace == InitRace /\ [][NextRace]_vars

\* ---------------------------------------------------------------- properties
\* users that own a capacity profile
ProfileUsers == {w \in Writers : has_profile[w]} \cup ProcessUsers

\* task types of the rows assigned to u whose status is not terminal
OpenTasksOf(u) ==
  {t \in TaskTypes : alloc[t].exists /\ alloc[t].allocated_to = u
                     /\ alloc[t].status # "completed"}

\* C1: capacity conservation -- every profile's current_jobs is the number of
\* non-terminal TaskAllocations assigned to its user, and a writer's
\* current_words is the sum of the word counts of the jobs of those rows.
CapacityConservation ==
  \A u \in ProfileUsers :
    /\ current_jobs[u] = Cardinality(OpenTasksOf(u))
    /\ u \in Writers => current_words[u] = JobWordCount * Cardinality(OpenTasksOf(u))

\* C2: the job-count bound -- 0 <= current_jobs <= max_jobs for every writer
\* profile, in every reachable state.
JobCountBound ==
  \A w \in Writers : has_profile[w] =>
    (0 <= current_jobs[w] /\ current_jobs[w] <= max_jobs(w))

\* TRUE when the rows a hold an assigned row of the predecessor of task type t
PredecessorAssigned(a, t) ==
  /\ a[dependent_on(t)].exists
  /\ a[dependent_on(t)].allocated_to # NoUser

\* C3: dependency gating -- no request creates the row of a dependent task
\* type (ai_plag, decoration) unless its predecessor's row has an assignee.
DependencyGating ==
  [][\A t \in {"ai_plag", "decoration"} :
       (~alloc[t].exists /\ alloc'[t].exists) => PredecessorAssigned(alloc', t)]_vars

\* number of AllocationHistory rows of task type t in the table h
HistoryCount(h, t) == Cardinality({i \in 1..Len(h) : h[i].task = t})

\* C4: every mutation of a row's assignee produces exactly one
\* AllocationHistory row for that TaskAllocation.
OneHistoryRowPerMutation ==
  [][\A t \in TaskTypes :
       alloc'[t].allocated_to # alloc[t].allocated_to =>
         HistoryCount(history', t) = HistoryCount(history, t) + 1]_vars

\* a step of update_task, with any form
UpdateTaskStep == \E f \in UpdateTaskInputs : update_task(f[1], f[2], f[3], f[4], f[5])

\* C5: the status sync of update_task leaves a 'cancelled' or 'hold'
\* Job.status as it is.
SyncKeepsManualOverride ==
  [][(job_status \in {"cancelled", "hold"} /\ UpdateTaskStep)
       => job_status' = job_status]_vars

\* task types of the rows of a that have an assignee
AssignedRows(a) == {t \in TaskTypes : a[t].exists /\ a[t].allocated_to # NoUser}

\* the status sections 3 and 4.2 of the specification derive from the rows a:
\* a job without an assigned row is never 'completed'
derived_status(a) ==
  IF AssignedRows(a) # {} /\ \A t \in AssignedRows(a) : a[t].status = "completed"
    THEN "completed"
  ELSE IF a["content_creation"].exists /\ a["content_creation"].status = "in_progress"
    THEN "in_progress"
  ELSE IF AssignedRows(a) # {} THEN "allocated"
  ELSE "pending"

\* C6: after an accepted update_task the status sync has written the status
\* derived by the rules completed / in_progress / allocated / pending, and a
\* job without an assigned row is not 'completed'.
SyncWritesDerivedStatus ==
  [][\A f \in UpdateTaskInputs :
       (update_task_accepted(f[1], f[2], f[3], f[4], f[5])
        /\ update_task(f[1], f[2], f[3], f[4], f[5]))
         => job_status' = derived_status(alloc')]_vars

\* C7: once every assigned row is 'completed' and Job.status is 'completed',
\* Job.status stays 'completed' in every step that is not a cancel or hold.
CompletedJobStays ==
  [][(/\ job_status = "completed"
      /\ AssignedRows(alloc) # {}
      /\ \A t \in AssignedRows(alloc) : alloc[t].status = "completed"
      /\ job_status' \notin {"cancelled", "hold"})
       => job_status' = "completed"]_vars

\* C8: 'completed' is terminal for a TaskAllocation.
CompletedTaskStays ==
  [][\A t \in TaskTypes :
       (alloc[t].exists /\ alloc[t].status = "completed")
         => alloc'[t].status = "completed"]_vars

\* C9: a Job.status other than 'cancelled' / 'hold' is the status derived
\* from the job's current TaskAllocations.
StatusIsDerived ==
  job_status \notin {"cancelled", "hold"} => job_status = derived_status(alloc)

\* C10: the assignee of every row has a role its task type allows.
RoleEligibility ==
  \A t \in AssignedRows(alloc) : can_allocate_to_user(t, alloc[t].allocated_to)

\* C11: eligibility is re-validated at assignment -- no request makes a writer
\* the new assignee of a row while can_accept_job(job) of that writer's
\* profile is false.
AssignmentRevalidated ==
  [][\A t \in TaskTypes : \A w \in Writers :
       (/\ has_profile[w]
        /\ ~can_accept_job(writer_profile(w), the_job).ok
        /\ alloc[t].allocated_to # w)
       => alloc'[t].allocated_to # w]_vars

\* C12: a rejected assign mutates no state -- a step of allocate_job or
\* switch_writer whose request ends in an error leaves every row, history
\* row, Job field and capacity counter as it was.
RejectedAssignMutatesNothing ==
  [][/\ \A cw \in ContentInputs, ai \in AiPlagInputs, deco \in DecorationInputs :
          (allocate_job(cw, ai, deco) /\ ~allocate_request(cw, ai, deco).ok)
          => UNCHANGED pvars
     /\ \A t \in TaskTypes, nw \in {"w1", "w2", "p1"} :
          (switch_writer(t, nw) /\ ~switch_request(t, nw).ok)
          => UNCHANGED pvars]_vars

\* the rows of the job assigned to user u
RowsOf(a, u) == {t \in TaskTypes : a[t].exists /\ a[t].allocated_to = u}

\* C13: cancelling releases capacity in the same step -- after a cancel
\* (cancel_jobs, or cancel_job of view_job_details) every writer's
\* current_jobs is reduced by the number of the job's rows assigned to them
\* and current_words by the word_count of each, for every writer whose
\* counters covered those rows before the cancel.
CancelReleasesCapacity ==
  [][(cancel_job(TRUE) \/ cancel_jobs) =>
       \A w \in Writers :
         LET n == Cardinality(RowsOf(alloc, w)) IN
         (/\ has_profile[w]
          /\ current_jobs[w] >= n
          /\ current_words[w] >= n * JobWordCount)
         => /\ current_jobs'[w] = current_jobs[w] - n
            /\ current_words'[w] = current_words[w] - n * JobWordCount]_vars

\* C14: a switch from writer W1 to a different writer W2 decrements
\* W1.current_jobs by exactly 1, increments W2.current_jobs by exactly 1, sets
\* the assignee to W2 and appends exactly one history row 'switched' with
\* previous_user = W1 and new_user = W2; no other profile changes.
SwitchMovesOneJob ==
  [][\A t \in TaskTypes, nw \in Writers :
       LET old == alloc[t].allocated_to IN
       (/\ switch_writer(t, nw)
        /\ switch_request(t, nw).ok
        /\ old \in Writers /\ old # nw /\ has_profile[old])
       => /\ current_jobs'[old] = current_jobs[old] - 1
          /\ current_jobs'[nw] = current_jobs[nw] + 1
          /\ alloc'[t].allocated_to = nw
          /\ history' = Append(history, [task |-> t, action |-> "switched",
                                         previous_user |-> old, new_user |-> nw])
          /\ \A u \in DOMAIN current_jobs \ {old, nw} :
               current_jobs'[u] = current_jobs[u]]_vars

\* C15: on a job without TaskAllocations, allocate_job with only a content
\* writer W whose profile can accept the job succeeds, creates exactly one
\* TaskAllocation (content_creation, assignee W) and exactly one history row
\* 'allocated' with new_user = W, and sets Job.status to 'allocated'.
FirstContentAllocation ==
  [][\A w \in Writers :
       (/\ allocate_job(w, NoUser, NoUser)
        /\ \A t \in TaskTypes : row_count[t] = 0
        /\ has_profile[w]
        /\ can_accept_job(writer_profile(w), the_job).ok)
       => /\ allocate_request(w, NoUser, NoUser).ok
          /\ row_count' = [t \in TaskTypes |-> IF t = "content_creation" THEN 1 ELSE 0]
          /\ alloc'["content_creation"] =
               [exists |-> TRUE, allocated_to |-> w, status |-> "pending"]
          /\ \A t \in TaskTypes \ {"content_creation"} : ~alloc'[t].exists
          /\ history' = Append(history, [task |-> "content_creation", action |-> "allocated",
                                         previous_user |-> NoUser, new_user |-> w])
          /\ job_status' = "allocated"]_vars

\* the first request allocated content_creation, alone, to the free writer w1
FirstContentAllocated ==
  /\ steps = 1
  /\ job_status = "allocated"
  /\ row_count = [t \in TaskTypes |-> IF t = "content_creation" THEN 1 ELSE 0]
  /\ alloc["content_creation"].allocated_to = "w1"
  /\ Len(history) = 1 /\ history[1].action = "allocated" /\ history[1].new_user = "w1"
  /\ current_jobs["w1"] = 1

\* C16: the activate action succeeds exactly for a marketing actor -- on a
\* held job a marketing actor's activate request moves Job.status out of
\* 'hold', and an allocator's activate request leaves it at 'hold'.
MarketingActivateClearsHold ==
  job_status = "hold" =>
    /\ hold_status("marketing", "activate", job_status) # "hold"
    /\ hold_status("allocator", "activate", job_status) = "hold"

\* C17: AllocationHistory is append-only -- no request lowers the number of
\* history rows of a TaskAllocation, and the recorded fields of a row that
\* exists never change.
HistoryAppendOnly ==
  [][/\ Len(history') >= Len(history)
     /\ \A i \in 1..Len(history) : history'[i] = history[i]
     /\ \A t \in TaskTypes : HistoryCount(history', t) >= HistoryCount(history, t)]_vars

\* a row was allocated, reallocated and then switched: three rows recorded
HistoryGrewTwice ==
  /\ Len(history) = 3
  /\ history[1].action = "allocated"
  /\ history[2].action = "reallocated"
  /\ history[3].action = "switched"
  /\ history[1].task = history[3].task

\* C18: at most one TaskAllocation exists per (job, task_type) in every
\* reachable state -- the first allocation of the pair creates the row, and
\* every later allocate, reallocate, update or switch works on that row.
OneRowPerTaskType ==
  \A t \in TaskTypes :
    /\ row_count[t] <= 1
    /\ alloc[t].exists <=> row_count[t] = 1

\* the row of a pair was created by one request and written again by two later
\* ones, a reallocation among them
RowReusedByLaterRequests ==
  \E t \in TaskTypes :
    /\ row_count[t] = 1
    /\ HistoryCount(history, t) >= 2
    /\ \E i \in 1..Len(history) : history[i].task = t /\ history[i].action = "reallocated"
    /\ steps = 3

\* a step of update_task for the decoration panel, with any form
UpdateDecorationStep ==
  \E f \in UpdateTaskInputs :
    f[2] = "decoration" /\ update_task(f[1], f[2], f[3], f[4], f[5])

GateAvailable(p) ==
  p.is_available /\ ~p.is_sunday_off /\ ~p.is_on_holiday /\ ~p.is_overloaded

\* C20: can_accept_job evaluates availability, job count, word count and IT
\* specialization in this order and returns false with the reason of the
\* first gate that fails, true only when all four pass; an available profile
\* with max_jobs = 5 and current_jobs = 5 gets the job-limit reason naming 5,
\* whatever the word count and the category.
AcceptGateOrder ==
  probe.called =>
    LET p == probe.profile
        j == probe.job
        r == probe.result
        jobs_ok == p.current_jobs < p.max_jobs
        words_ok == p.current_words + j.word_count <= p.max_words
        it_ok == j.job_category = "IT" => p.is_it_writer
    IN /\ ~GateAvailable(p) =>
            (~r.ok /\ r.reason = "Writer is not available")
       /\ (GateAvailable(p) /\ ~jobs_ok) =>
            (~r.ok /\ r.reason = "Maximum job limit reached" /\ r.arg = p.max_jobs)
       /\ (GateAvailable(p) /\ jobs_ok /\ ~words_ok) =>
            (~r.ok /\ r.reason = "Word limit would be exceeded")
       /\ (GateAvailable(p) /\ jobs_ok /\ words_ok /\ ~it_ok) =>
            (~r.ok /\ r.reason = "Not an IT writer")
       /\ r.ok <=> (GateAvailable(p) /\ jobs_ok /\ words_ok /\ it_ok)
       /\ (GateAvailable(p) /\ p.max_jobs = DefaultMaxJobs
                             /\ p.current_jobs = DefaultMaxJobs) =>
            (~r.ok /\ r.reason = "Maximum job limit reached" /\ r.arg = DefaultMaxJobs)

\* can_accept_job was called on an available profile at max_jobs = 5 =
\* current_jobs whose word limit and specialization fail as well, and named
\* the job limit
JobLimitNamedFirst ==
  /\ probe.called
  /\ GateAvailable(probe.profile)
  /\ probe.profile.max_jobs = DefaultMaxJobs
  /\ probe.profile.current_jobs = DefaultMaxJobs
  /\ probe.profile.current_words + probe.job.word_count > probe.profile.max_words
  /\ probe.job.job_category = "IT" /\ ~probe.profile.is_it_writer
  /\ probe.result = [ok |-> FALSE, reason |-> "Maximum job limit reached",
                     arg |-> DefaultMaxJobs]

WithSoftwareTypes ==
  {Chars(a) \o Chars("withsoftware") : a \in {"management", "IT", "finance"}}

\* C22: can_have_query(job) is false whenever degree is 0, whatever the
\* software_type, true when degree >= 1 and the software_type indicates
\* software support, and false in every other case.
QueryEligibility ==
  qview.rendered =>
    /\ qjob.degree = 0 => ~qview.can_have_query
    /\ qview.can_have_query <=>
         (qjob.degree >= 1 /\ qjob.software_type \in WithSoftwareTypes)

\* the page of a degree-0 job with software support was rendered with
\* queries disabled
DegreeZeroPageRendered ==
  /\ qview.rendered
  /\ qjob.degree = 0
  /\ qjob.software_type \in WithSoftwareTypes
  /\ ~qview.can_have_query

\* C23: raise_query creates a JobQuery only when can_have_query(job) holds
\* and the stripped text has at least 10 characters; a request failing
\* either leaves the JobQuery rows as they are, and no raise_query changes a
\* TaskAllocation or the Job status.
QueryRaisedOnlyWhenEligible ==
  [][\A actor \in {"allocator", "writer", "marketing"}, text \in QueryTexts :
       raise_query(actor, text) =>
         /\ IF /\ qjob.degree >= 1 /\ qjob.software_type \in WithSoftwareTypes
               /\ text.body >= MinQueryLen
            THEN Len(queries') <= Len(queries) + 1
            ELSE queries' = queries
         /\ alloc' = alloc
         /\ job_status' = job_status]_vars

\* a query was raised on a job whose content task is in progress
QueryRaisedOnRunningJob ==
  /\ Len(queries) = 1
  /\ queries[1].status = "open"
  /\ queries[1].query_text.body = MinQueryLen
  /\ alloc["content_creation"].status = "in_progress"
  /\ job_status = "in_progress"

\* C24: hold requires a non-terminal status -- a hold request on a job whose
\* status is 'completed' or 'cancelled', or an update_task to 'hold' of a
\* task that is 'completed', is rejected and leaves the status as it is.
HoldOnlyFromNonTerminal ==
  [][/\ (job_status \in {"completed", "cancelled"}
         /\ hold_jobs_allocator("allocator", "hold"))
        => job_status' = job_status
     /\ \A f \in UpdateTaskInputs :
          (/\ f[2] \in TaskTypes /\ f[3] = "hold"
           /\ alloc[f[2]].exists /\ alloc[f[2]].status = "completed"
           /\ update_task(f[1], f[2], f[3], f[4], f[5]))
          => alloc'[f[2]].status = "completed"]_vars

\* C27: in every reachable state Job.status is one of the declared statuses
\* pending, allocated, in_progress, hold, query, completed, cancelled,
\* whichever operation wrote it last.
JobStatusDeclared == job_status \in JOB_STATUS_CHOICES

\* C25: a failure of the audit sink never aborts the operation -- when
\* writing the ActivityLog record raised during close_job or cancel_job, the
\* request still ended normally for the caller.
AuditFailureSwallowed ==
  response.sink_failed => response.outcome = "success"

\* C28: cancelling is idempotent on capacity -- a cancel_jobs request for a
\* job that is already 'cancelled' leaves every current_jobs and
\* current_words as it was.
CancelReleasesOnce ==
  [][(job_status = "cancelled" /\ cancel_jobs)
       => (current_jobs' = current_jobs /\ current_words' = current_words)]_vars

\* C29: after any sequence of register, approve and reject actions through
\* any path, is_approved is true exactly when approval_status is 'approved';
\* a rejected user is refused by the login and the middleware checks.
ApprovalFlagsAgree ==
  account.registered =>
    /\ account.is_approved <=> account.approval_status = "approved"
    /\ account.approval_status = "rejected" =>
         (login_refused(account) /\ middleware_refused(account))

\* the status changes a ProfileChangeRequest may make
RequestMoves ==
  {<<"none", "pending">>, <<"pending", "approved">>, <<"approved", "completed">>,
   <<"pending", "rejected">>, <<"approved", "rejected">>}

\* C30: a ProfileChangeRequest moves only pending -> approved, approved ->
\* completed and pending or approved -> rejected; 'completed' and 'rejected'
\* are terminal; approve, mark_completed or reject called in any other
\* status returns False and changes neither the request's status nor the
\* user's profile_edit_allowed.
RequestLifecycle ==
  [][/\ pcr'.status # pcr.status => <<pcr.status, pcr'.status>> \in RequestMoves
     /\ pcr.status \in {"completed", "rejected"} => pcr'.status = pcr.status
     /\ \A m \in {"approve", "mark_completed", "reject"} :
          LET from == CASE m = "approve" -> {"pending"}
                        [] m = "mark_completed" -> {"approved"}
                        [] m = "reject" -> {"pending", "approved"}
          IN request_method(m) =>
               IF pcr.status \in from
               THEN pcr'.returned = "True"
               ELSE /\ pcr'.returned = "False"
                    /\ pcr'.status = pcr.status
                    /\ account'.profile_edit_allowed = account.profile_edit_allowed]_vars

\* reject was called on a request already completed and returned False
RejectRefusedOnCompleted ==
  /\ pcr.status = "completed"
  /\ pcr.call = "reject"
  /\ pcr.returned = "False"

\* switch_writer run alone on the saved state s
switch_alone(s, nw) ==
  LET old == s.alloc[RaceTask].allocated_to
  IN switch_record(switch_charge_new(switch_release_old(s, old), nw),
                   RaceTask, old, nw)

\* assignee and counters a state record holds
Outcome(s) == <<s.alloc[RaceTask].allocated_to, s.jobs, s.words>>

\* the outcomes of the two requests run one after the other, in either order
SerialOutcomes ==
  {Outcome(switch_alone(switch_alone(RaceStart, req.new_writer["A"]), req.new_writer["B"])),
   Outcome(switch_alone(switch_alone(RaceStart, req.new_writer["B"]), req.new_writer["A"]))}

\* C26: concurrent reassignment of one TaskAllocation is unguarded -- no
\* lock or version check makes a switch_writer request wait for, or give way
\* to, another request on the same row: every statement of a request that
\* has not ended can run whatever the other request has done.
SwitchUnguarded ==
  req.racing => \A r \in Requests : req.pc[r] # "done" => ENABLED request_step(r)

\* both requests ended and the final state is that of no serial execution:
\* both new writers were charged a job and only one of them is the assignee
NonSerialFinalState ==
  /\ req.racing
  /\ \A r \in Requests : req.pc[r] = "done"
  /\ <<alloc[RaceTask].allocated_to, current_jobs, current_words>> \notin SerialOutcomes
  /\ req.new_writer["A"] # req.new_writer["B"]
  /\ \A r \in Requests : current_jobs[req.new_writer[r]] = 1

====
